---- MODULE Spec2Model ----
(***************************************************************************)
(* AurumTrack (src/main.js, the current version of the dashboard script,   *)
(* lines 721-1626): the anchor search, the quote store and its processors, *)
(* the gap prediction, the snapshot cache, the session gating driven by    *)
(* the 1-second clock, the trading calendar and the two fetch adapters;    *)
(* the countdown and the refresh interval, a save-and-reload round trip of *)
(* the snapshot; and the chart processors of the earlier version           *)
(* src/unnamed/part_000.                                                   *)
(*                                                                         *)
(* JavaScript values are records [t, n, d]: t = "num" is the rational n/d  *)
(* (d >= 1, lowest terms), and null, undefined and NaN are the three other *)
(* tags.  Prices are whole numbers of an arbitrary minor unit.             *)
(*                                                                         *)
(* One handler is one action: the clock reads of a handler (istNow) are    *)
(* taken to return one and the same instant.                               *)
(***************************************************************************)
EXTENDS Integers, Sequences, FiniteSets, TLC

VARIABLES
    series,     \* the chart series handed to findAnchor1530: [timestamps, closes]
    anchor,     \* what findAnchor1530 returned for it ("pending" before the call)
    pc,         \* "init" before DOMContentLoaded, "running" after its handler
    now,        \* the IST instant the last clock tick read: [date, min]
    status,     \* #nse-status and the four live dots
    gate,       \* the prediction banner, the cards, the expected-price spans
    S,          \* the quote store
    pred,       \* the gap-prediction cards: per pair exp, anchor, now, pct
    cache,      \* localStorage 'market_data'
    inflight,   \* refresh cycles awaiting responses: [id, phase]
    started,    \* refresh cycles started so far
    timerOn,    \* the refresh setInterval is registered
    holidays,   \* the holiday table the calendar functions consult
    cal,        \* getNextNseDay and isTomorrowNseOpen asked at an instant
    fetch,      \* one adapter call: the endpoints contacted and what came back
    resolved,   \* the previous close each chart processor resolved from a meta
    cd,         \* the countdown: seconds shown until the next refresh
    reloaded    \* the store of a fresh page after loadCache read the snapshot

anchorVars == <<series, anchor>>
clockVars == <<now, status, gate>>
dataVars == <<S, pred, cache, inflight, started, timerOn, cd>>
unitVars == <<holidays, cal, fetch, resolved, reloaded>>
vars ==
    <<series, anchor, pc, now, status, gate, S, pred, cache, inflight, started, timerOn,
      holidays, cal, fetch, resolved, cd, reloaded>>

(***************************************************************************)
(* JavaScript values                                                       *)
(***************************************************************************)
Num(n) == [t |-> "num", n |-> n, d |-> 1]
Null == [t |-> "null", n |-> 0, d |-> 1]
Undef == [t |-> "undefined", n |-> 0, d |-> 1]
NaN == [t |-> "NaN", n |-> 0, d |-> 1]

IsNum(v) == v.t = "num"

\* ToBoolean: 0, null, undefined and NaN are falsy.
Truthy(v) == IsNum(v) /\ v.n # 0

\* a ?? b
Coalesce(a, b) == IF a.t \in {"null", "undefined"} THEN b ELSE a

\* closes[i] === null || closes[i] === undefined
IsNullish(v) == v.t \in {"null", "undefined"}

Abs(x) == IF x < 0 THEN -x ELSE x

(***************************************************************************)
(* Numbers: exact rationals in lowest terms with a positive denominator.   *)
(***************************************************************************)
RECURSIVE Gcd(_, _)
Gcd(a, b) == IF b = 0 THEN a ELSE Gcd(b, a % b)

Rat(n, d) ==
    LET g == Gcd(Abs(n), Abs(d))
        sgn == IF d < 0 THEN -1 ELSE 1
    IN [t |-> "num", n |-> (sgn * n) \div g, d |-> Abs(d) \div g]

RAdd(a, b) == Rat(a.n * b.d + b.n * a.d, a.d * b.d)
RSub(a, b) == Rat(a.n * b.d - b.n * a.d, a.d * b.d)
RMul(a, b) == Rat(a.n * b.n, a.d * b.d)
\* a / b for b # 0
RDiv(a, b) == Rat(a.n * b.d, a.d * b.n)

\* ToNumber: null is 0, undefined is NaN.
ToNumber(v) == IF v.t = "null" THEN Num(0) ELSE IF v.t = "undefined" THEN NaN ELSE v

\* a - b on JavaScript values
JsSub(a, b) ==
    LET x == ToNumber(a)
        y == ToNumber(b)
    IN IF IsNum(x) /\ IsNum(y) THEN RSub(x, y) ELSE NaN

(***************************************************************************)
(* findAnchor1530 (src/main.js:1237-1260)                                  *)
(***************************************************************************)
\* new Date(ts * 1000): getUTCHours() * 60 + getUTCMinutes()
candleMinOf(ts) == (ts \div 60) % 1440

\* the UTC calendar day of an epoch-seconds timestamp
utcDayOf(ts) == ts \div 86400

TARGET_UTC == 10 * 60

\* The loop body for index i, downwards; bestIdx = 0 stands for -1.
RECURSIVE AnchorScan(_, _, _, _, _)
AnchorScan(timestamps, closes, i, bestIdx, minDiff) ==
    IF i < 1
    THEN IF bestIdx # 0 THEN closes[bestIdx] ELSE Null
    ELSE IF IsNullish(closes[i])
         THEN AnchorScan(timestamps, closes, i - 1, bestIdx, minDiff)
         ELSE LET diff == Abs(candleMinOf(timestamps[i]) - TARGET_UTC)
              IN IF diff <= 5
                 THEN closes[i]
                 ELSE IF diff < minDiff
                      THEN AnchorScan(timestamps, closes, i - 1, i, diff)
                      ELSE AnchorScan(timestamps, closes, i - 1, bestIdx, minDiff)

\* A window one minute too wide (minDiff = 31, i.e. diff <= 30 accepted).
findAnchor1530_wide(timestamps, closes) ==
    AnchorScan(timestamps, closes, Len(timestamps), 0, 31)

findAnchor1530(timestamps, closes) ==
    AnchorScan(timestamps, closes, Len(timestamps), 0, 30)

(***************************************************************************)
(* Time/Calendar (src/main.js:751-837, 964-968)                            *)
(* A date is <<year, month, day>> in IST; an instant is [date, min].       *)
(***************************************************************************)
NSE_HOLIDAYS ==
    { <<2025, 2, 26>>, <<2025, 3, 14>>, <<2025, 3, 31>>, <<2025, 4, 10>>,
      <<2025, 4, 14>>, <<2025, 4, 18>>, <<2025, 5, 1>>, <<2025, 8, 15>>,
      <<2025, 8, 27>>, <<2025, 10, 2>>, <<2025, 10, 21>>, <<2025, 10, 22>>,
      <<2025, 11, 5>>, <<2025, 12, 25>>,
      <<2026, 1, 26>>, <<2026, 3, 3>>, <<2026, 3, 26>>, <<2026, 3, 31>>,
      <<2026, 4, 3>>, <<2026, 4, 14>>, <<2026, 5, 1>>, <<2026, 5, 28>>,
      <<2026, 6, 26>>, <<2026, 9, 14>>, <<2026, 10, 2>>, <<2026, 10, 20>>,
      <<2026, 11, 9>>, <<2026, 11, 24>>, <<2026, 12, 25>> }

IsLeap(y) == (y % 4 = 0 /\ y % 100 # 0) \/ y % 400 = 0

DaysInMonth(y, m) ==
    IF m = 2 THEN (IF IsLeap(y) THEN 29 ELSE 28)
    ELSE IF m \in {4, 6, 9, 11} THEN 30 ELSE 31

\* Date.getDay() of a date: 0 = Sunday .. 6 = Saturday.
getDay(date) ==
    LET y == IF date[2] <= 2 THEN date[1] - 1 ELSE date[1]
        mp == IF date[2] > 2 THEN date[2] - 3 ELSE date[2] + 9
        era == y \div 400
        yoe == y - era * 400
        doy == (153 * mp + 2) \div 5 + date[3] - 1
        doe == yoe * 365 + yoe \div 4 - yoe \div 100 + doy
        days == era * 146097 + doe - 719468
    IN (days + 4) % 7

\* candidate.setDate(candidate.getDate() + 1)
AddDay(date) ==
    IF date[3] < DaysInMonth(date[1], date[2]) THEN <<date[1], date[2], date[3] + 1>>
    ELSE IF date[2] < 12 THEN <<date[1], date[2] + 1, 1>>
    ELSE <<date[1] + 1, 1, 1>>

\* NSE_HOLIDAYS.has(toISTDateString(istDate))
isNseHoliday(date) == date \in holidays

\* The loop with a cap of 15 iterations.
RECURSIVE NextNseScan_cap15(_, _)
NextNseScan_cap15(candidate, i) ==
    IF i >= 15 THEN [date |-> candidate, steps |-> i]
    ELSE IF getDay(candidate) >= 1 /\ getDay(candidate) <= 5 /\ ~isNseHoliday(candidate)
         THEN [date |-> candidate, steps |-> i]
         ELSE NextNseScan_cap15(AddDay(candidate), i + 1)

\* The loop of getNextNseDay from its i-th iteration on: the date returned and
\* the number of times the candidate was moved on by a day.
RECURSIVE NextNseScan(_, _)
NextNseScan(candidate, i) ==
    IF i >= 14 THEN [date |-> candidate, steps |-> i]
    ELSE IF getDay(candidate) >= 1 /\ getDay(candidate) <= 5 /\ ~isNseHoliday(candidate)
         THEN [date |-> candidate, steps |-> i]
         ELSE NextNseScan(AddDay(candidate), i + 1)

\* The walk started from today instead of tomorrow.
getNextNseDay_fromToday(ist) == NextNseScan(ist.date, 0).date

getNextNseDay(ist) == NextNseScan(AddDay(ist.date), 0).date

\* Tomorrow taken to be a trading day whatever the calendar says.
isTomorrowNseOpen_always(ist) == TRUE

\* Tomorrow taken to be a trading day whenever it is Monday to Friday.
isTomorrowNseOpen_weekdayOnly(ist) == getDay(AddDay(ist.date)) \in 1..5

isTomorrowNseOpen(ist) == getNextNseDay(ist) = AddDay(ist.date)

\* The session test without the holiday table.
isNseOpen_noHoliday(ist) ==
    LET d == getDay(ist.date)
        min == ist.min
    IN IF d = 0 \/ d = 6 THEN FALSE ELSE min >= 555 /\ min < 930

\* isNseOpen() at the instant ist its istNow() reads.
isNseOpen(ist) ==
    LET d == getDay(ist.date)
        min == ist.min
    IN IF d = 0 \/ d = 6 THEN FALSE
       ELSE IF isNseHoliday(ist.date) THEN FALSE
       ELSE min >= 555 /\ min < 930

(***************************************************************************)
(* The live clock (src/main.js:1018-1148): one tick at the instant ist.    *)
(***************************************************************************)
UnsetDate == <<0, 0, 0>>
HtmlGate ==
    [bannerClass |-> "html", bannerText |-> "html", bannerDisplay |-> "html",
     cardsDisplay |-> "html", priceWrapDisplay |-> "html", sectionLabel |-> UnsetDate]
HtmlStatus ==
    [txt |-> "html", cls |-> "html", dotInternational |-> "html", dotMcx |-> "html",
     dotBees |-> "html", dotPrediction |-> "html"]

Dot(isActive) == IF isActive THEN "active" ELSE "inactive"

updateLiveDots(st, minIST, dayOfWeek, isHoliday) ==
    LET isWeekday == dayOfWeek >= 1 /\ dayOfWeek <= 5 /\ ~isHoliday
    IN [st EXCEPT !.dotInternational = Dot(isWeekday),
                  !.dotMcx = Dot(isWeekday /\ minIST >= 540 /\ minIST < 1410),
                  !.dotBees = Dot(isWeekday /\ minIST >= 555 /\ minIST < 930),
                  !.dotPrediction = Dot(isWeekday /\ minIST >= 930)]

updateNseStatus(st, ist) ==
    LET d == getDay(ist.date)
        min == ist.min
        isHoliday == isNseHoliday(ist.date)
        txt == IF d = 0 \/ d = 6 THEN "NSE: Weekend"
               ELSE IF isHoliday THEN "NSE: Holiday"
               ELSE IF min < 540 THEN "NSE: Closed"
               ELSE IF min < 555 THEN "NSE: Pre-open"
               ELSE IF min < 930 THEN "NSE: Open"
               ELSE "NSE: Closed"
        cls == IF d = 0 \/ d = 6 THEN "closed"
               ELSE IF isHoliday THEN "closed"
               ELSE IF min < 540 THEN "closed"
               ELSE IF min < 555 THEN "pre"
               ELSE IF min < 930 THEN "open"
               ELSE "closed"
    IN updateLiveDots([st EXCEPT !.txt = txt, !.cls = cls], min, d, isHoliday)

\* hideExpectedPrices(hide): the style.display of every .prediction-price-wrap
hideExpectedPrices(hide) == IF hide THEN "none" ELSE ""

\* Unlocking one minute late: min > 930.
afterCloseOnWeekday_late(ist) ==
    /\ getDay(ist.date) >= 1 /\ getDay(ist.date) <= 5
    /\ ~isNseHoliday(ist.date)
    /\ ist.min > 930

\* Unlocking without the holiday test.
afterCloseOnWeekday_noHoliday(ist) ==
    /\ getDay(ist.date) >= 1 /\ getDay(ist.date) <= 5
    /\ ist.min >= 930

\* const afterCloseOnWeekday = isWeekday && !isHoliday && min >= 930
afterCloseOnWeekday(ist) ==
    /\ getDay(ist.date) >= 1 /\ getDay(ist.date) <= 5
    /\ ~isNseHoliday(ist.date)
    /\ ist.min >= 930

\* The open-tomorrow branch without its hideExpectedPrices(false): the spans
\* stay as an earlier closed-tomorrow tick left them.
updatePredictionSection_keepsHidden(g, ist) ==
    LET dow == getDay(ist.date)
        isWeekday == dow >= 1 /\ dow <= 5
        isHoliday == isNseHoliday(ist.date)
        labelled == [g EXCEPT !.sectionLabel = getNextNseDay(ist)]
    IN IF ~afterCloseOnWeekday(ist)
       THEN [labelled EXCEPT
                !.bannerClass = "banner-locked",
                !.bannerText = IF ~isWeekday \/ isHoliday THEN "closed-today" ELSE "unlocks-at",
                !.bannerDisplay = "flex",
                !.cardsDisplay = "none"]
       ELSE IF ~isTomorrowNseOpen(ist)
            THEN [labelled EXCEPT
                     !.bannerClass = "banner-closed",
                     !.bannerText = "closed-tomorrow",
                     !.bannerDisplay = "flex",
                     !.cardsDisplay = "grid",
                     !.priceWrapDisplay = hideExpectedPrices(TRUE)]
            ELSE [labelled EXCEPT
                     !.bannerDisplay = "none",
                     !.cardsDisplay = "grid"]

updatePredictionSection(g, ist) ==
    LET dow == getDay(ist.date)
        isWeekday == dow >= 1 /\ dow <= 5
        isHoliday == isNseHoliday(ist.date)
        nextNseDay == getNextNseDay(ist)
        labelled == [g EXCEPT !.sectionLabel = nextNseDay]
    IN IF ~afterCloseOnWeekday(ist)
       THEN [labelled EXCEPT
                !.bannerClass = "banner-locked",
                !.bannerText = IF ~isWeekday \/ isHoliday THEN "closed-today" ELSE "unlocks-at",
                !.bannerDisplay = "flex",
                !.cardsDisplay = "none"]
       ELSE IF ~isTomorrowNseOpen(ist)
            THEN [labelled EXCEPT
                     !.bannerClass = "banner-closed",
                     !.bannerText = "closed-tomorrow",
                     !.bannerDisplay = "flex",
                     !.cardsDisplay = "grid",
                     !.priceWrapDisplay = hideExpectedPrices(TRUE)]
            ELSE [labelled EXCEPT
                     !.bannerDisplay = "none",
                     !.cardsDisplay = "grid",
                     !.priceWrapDisplay = hideExpectedPrices(FALSE)]

\* tick() of startLiveClock
TickEffect(ist) ==
    /\ now' = ist
    /\ status' = updateNseStatus(status, ist)
    /\ gate' = updatePredictionSection(gate, ist)

(***************************************************************************)
(* The quote store and its processors (src/main.js:848-864, 1262-1318)     *)
(***************************************************************************)
\* The gold pair given the silver pair's coefficient.
GOLD_MODEL_silverBeta == [beta |-> Rat(82, 100), r2 |-> Rat(87, 100)]

GOLD_MODEL == [beta |-> Rat(88, 100), r2 |-> Rat(91, 100)]
SILVER_MODEL == [beta |-> Rat(82, 100), r2 |-> Rat(87, 100)]

\* The store's source set to the chart provider.
Source_yahoo == "yahoo"

\* S.source: set at construction, assigned nowhere.
Source == "tradingview"

Quote3 == [cur |-> Num(0), prev |-> Num(0), anchor1530 |-> Num(0)]
Quote2 == [cur |-> Num(0), prev |-> Num(0)]

InitStore ==
    [xau |-> Quote3, xag |-> Quote3, usdinr |-> Quote2, goldBees |-> Quote2,
     silverBees |-> Quote2, xauM |-> Quote2, xagM |-> Quote2]

StoreKeys == {"xau", "xag", "usdinr", "goldBees", "silverBees", "xauM", "xagM"}

\* The store key a scanner symbol is written to ("" for an unknown symbol).
KeyOfSymbol(sym) ==
    CASE sym = "TVC:GOLD" -> "xau"
      [] sym = "TVC:SILVER" -> "xag"
      [] sym = "FX_IDC:USDINR" -> "usdinr"
      [] sym = "NSE:GOLDBEES" -> "goldBees"
      [] sym = "NSE:SILVERBEES" -> "silverBees"
      [] sym = "MCX:GOLDM1!" -> "xauM"
      [] sym = "MCX:SILVERM1!" -> "xagM"
      [] OTHER -> ""

\* The previous close derived from the percent change (the second element).
ProcessItem_pct(st, item) ==
    LET cur == item.d[1]
        prev == JsSub(cur, item.d[2])
        k == KeyOfSymbol(item.s)
    IN IF k = "" THEN st
       ELSE [st EXCEPT ![k].cur = cur, ![k].prev = prev]

\* Only the current value written for an item.
ProcessItem_curOnly(st, item) ==
    LET k == KeyOfSymbol(item.s)
    IN IF k = "" THEN st ELSE [st EXCEPT ![k].cur = item.d[1]]

\* One item of res.data: const [cur, pct, diff] = item.d; prev = cur - diff.
ProcessItem(st, item) ==
    LET cur == item.d[1]
        diff == item.d[3]
        prev == JsSub(cur, diff)
        k == KeyOfSymbol(item.s)
    IN IF k = "" THEN st
       ELSE [st EXCEPT ![k].cur = cur, ![k].prev = prev]

RECURSIVE ProcessItems(_, _, _)
ProcessItems(st, data, i) ==
    IF i > Len(data) THEN st ELSE ProcessItems(ProcessItem(st, data[i]), data, i + 1)

\* A null result taken as a reason to reset the gold BeES Quote.
processTVData_clearsOnNull(st, res) ==
    IF ~res.ok THEN [st EXCEPT !.goldBees = Quote2] ELSE ProcessItems(st, res.data, 1)

\* A scanner result is [ok, data]: ok = FALSE is the null of a failed fetch
\* (or a body without data).
processTVData(st, res) == IF ~res.ok THEN st ELSE ProcessItems(st, res.data, 1)

\* tvResults.forEach(res => { if (res) processTVData(res); })
RECURSIVE ProcessTVResults(_, _, _)
ProcessTVResults(st, results, i) ==
    IF i > Len(results) THEN st
    ELSE ProcessTVResults(processTVData(st, results[i]), results, i + 1)

\* const [cur, pct, diff] = item.d throws a TypeError when the item has no d
\* (null or missing): such an item is written with d = <<>>.
Destructures(item) == item.d # <<>>

\* processTVData(res) throws on one of its items.
ThrowsIn(res) == res.ok /\ \E i \in 1..Len(res.data) : ~Destructures(res.data[i])

\* The store as the exception leaves it: the items before the offending one
\* have been written.
processTVDataPartial(st, res) ==
    LET bad == CHOOSE i \in 1..Len(res.data) :
                   ~Destructures(res.data[i]) /\ \A j \in 1..(i - 1) : Destructures(res.data[j])
    IN ProcessItems(st, SubSeq(res.data, 1, bad - 1), 1)

\* The first of the scanner results on which processTVData throws, 0 if none.
FirstThrowing(results) ==
    LET bad == {i \in 1..Len(results) : ThrowsIn(results[i])}
    IN IF bad = {} THEN 0 ELSE CHOOSE i \in bad : \A j \in bad : i <= j

\* The store when tvResults.forEach is left by the exception of result i.
StoreAtThrow(st, results, i) ==
    processTVDataPartial(ProcessTVResults(st, SubSeq(results, 1, i - 1), 1), results[i])

\* raw.meta.regularMarketPreviousClose ?? raw.meta.previousClose ?? raw.meta.chartPreviousClose
PrevClose(meta) ==
    Coalesce(Coalesce(meta.regularMarketPreviousClose, meta.previousClose),
             meta.chartPreviousClose)

lastValid(arr) ==
    LET ok == {i \in 1..Len(arr) : IsNum(arr[i])}
    IN IF ok = {} THEN Null ELSE arr[CHOOSE i \in ok : \A j \in ok : j <= i]

\* The fallback written unconditionally (anchor ?? prev of the earlier versions).
FallbackAnchor_always(old, anchorFound, prev) ==
    IF Truthy(anchorFound) THEN anchorFound ELSE prev

\* if (anchor) obj.anchor1530 = anchor; else if (!obj.anchor1530) obj.anchor1530 = prev;
FallbackAnchor(old, anchorFound, prev) ==
    IF Truthy(anchorFound) THEN anchorFound
    ELSE IF ~Truthy(old) THEN prev
    ELSE old

\* processUSD(sym, raw) for a well-formed chart result raw.
processUSD(st, sym, raw) ==
    LET closes == raw.closes
        timestamps == raw.timestamps
        prev == PrevClose(raw.meta)
        cur == Coalesce(raw.meta.regularMarketPrice, lastValid(closes))
        k == IF sym = "GC=F" THEN "xau" ELSE "xag"
        st1 == IF Source = "yahoo" THEN [st EXCEPT ![k].cur = cur, ![k].prev = prev] ELSE st
        found == findAnchor1530(timestamps, closes)
    IN [st1 EXCEPT ![k].anchor1530 = FallbackAnchor(st1[k].anchor1530, found, prev)]

\* processBees(sym, raw) (src/main.js:1289-1295)
processBees(st, sym, raw) ==
    LET prev == PrevClose(raw.meta)
        cur == Coalesce(raw.meta.regularMarketPrice, lastValid(raw.closes))
        k == IF sym = "GOLDBEES.NS" THEN "goldBees" ELSE "silverBees"
    IN [st EXCEPT ![k].cur = cur, ![k].prev = prev]

\* processForex(raw) (src/main.js:1297-1300)
processForex(st, raw) ==
    [st EXCEPT !.usdinr.cur = Coalesce(raw.meta.regularMarketPrice, Num(0)),
               !.usdinr.prev = Coalesce(PrevClose(raw.meta), Num(0))]

(***************************************************************************)
(* The processors of the earlier version src/unnamed/part_000 (258-307).   *)
(***************************************************************************)
\* raw.meta.chartPreviousClose ?? raw.meta.previousClose
part000_PrevClose(meta) == Coalesce(meta.chartPreviousClose, meta.previousClose)

\* findAnchor1530 of part_000: the valid close of hours 9-11 UTC with the
\* smallest gap to 10:00 UTC, at most 20 minutes, the latest one on a tie.
part000_findAnchor1530(timestamps, closes) ==
    LET gap(i) == Abs(candleMinOf(timestamps[i]) - TARGET_UTC)
        ok == {i \in 1..Len(timestamps) :
                  /\ ~IsNullish(closes[i])
                  /\ candleMinOf(timestamps[i]) \div 60 \in 9..11
                  /\ gap(i) <= 20}
    IN IF ok = {} THEN Null
       ELSE closes[CHOOSE i \in ok : \A j \in ok : gap(i) < gap(j) \/ (gap(i) = gap(j) /\ j <= i)]

part000_processUSD(st, sym, raw) ==
    LET prev == part000_PrevClose(raw.meta)
        cur == Coalesce(raw.meta.regularMarketPrice, lastValid(raw.closes))
        k == IF sym = "GC=F" THEN "xau" ELSE "xag"
    IN [st EXCEPT ![k].cur = cur,
                  ![k].prev = prev,
                  ![k].anchor1530 = Coalesce(part000_findAnchor1530(raw.timestamps, raw.closes), prev)]

part000_processBees(st, sym, raw) ==
    LET prev == part000_PrevClose(raw.meta)
        cur == Coalesce(raw.meta.regularMarketPrice, lastValid(raw.closes))
        k == IF sym = "GOLDBEES.NS" THEN "goldBees" ELSE "silverBees"
    IN [st EXCEPT ![k].cur = cur, ![k].prev = prev]

part000_processForex(st, raw) ==
    [st EXCEPT !.usdinr.cur = Coalesce(raw.meta.regularMarketPrice, Num(0)),
               !.usdinr.prev = Coalesce(raw.meta.chartPreviousClose, Num(0))]

(***************************************************************************)
(* Rendering and the snapshot cache (src/main.js:1433-1608)                *)
(***************************************************************************)
Html == [t |-> "html", n |-> 0, d |-> 1]
HtmlCard == [exp |-> Html, anchor |-> Html, now |-> Html, pct |-> Html]
HtmlPred == [gold |-> HtmlCard, silver |-> HtmlCard]

\* overnightPct = (cur - anchor1530) / anchor1530
OvernightPct(cur, anchor1530) == RDiv(RSub(cur, anchor1530), anchor1530)

\* The move with the operands of the subtraction swapped.
ExpectedOpen_swapped(cur, anchor1530, beesCur, model) ==
    RMul(beesCur, RAdd(Num(1), RMul(OvernightPct(anchor1530, cur), model.beta)))

\* expected = beesState.cur * (1 + overnightPct * model.beta)
ExpectedOpen(cur, anchor1530, beesCur, model) ==
    RMul(beesCur, RAdd(Num(1), RMul(OvernightPct(cur, anchor1530), model.beta)))

\* renderGap: the card is left as it is when a value is missing or zero.
renderGap(card, usdState, beesState, model) ==
    IF ~Truthy(usdState.cur) \/ ~Truthy(usdState.anchor1530) \/ ~Truthy(beesState.cur)
    THEN card
    ELSE [exp |-> ExpectedOpen(usdState.cur, usdState.anchor1530, beesState.cur, model),
          anchor |-> usdState.anchor1530,
          now |-> usdState.cur,
          pct |-> OvernightPct(usdState.cur, usdState.anchor1530)]

\* The gap-prediction part of renderUI.
RenderPred(p, st) ==
    [gold |-> renderGap(p.gold, st.xau, st.goldBees, GOLD_MODEL),
     silver |-> renderGap(p.silver, st.xag, st.silverBees, SILVER_MODEL)]

\* JSON.stringify of one field: undefined drops the key, NaN is written as null.
Absent == [t |-> "absent", n |-> 0, d |-> 1]
StringifyField(v) ==
    IF v.t = "undefined" THEN Absent ELSE IF v.t = "NaN" THEN Null ELSE v

StringifyQuote(q) == [f \in DOMAIN q |-> StringifyField(q[f])]

NoCache == [kind |-> "none", data |-> InitStore]
CorruptCache == [kind |-> "corrupt", data |-> InitStore]

\* A Quote without a price saved as an empty one.
saveCache_pricedOnly(st) ==
    [kind |-> "json",
     data |-> [k \in StoreKeys |->
                 IF Truthy(st[k].cur) THEN StringifyQuote(st[k]) ELSE InitStore[k]]]

\* saveCache: the whole record is overwritten.
saveCache(st) == [kind |-> "json", data |-> [k \in StoreKeys |-> StringifyQuote(st[k])]]

\* Object.assign(S[k], data[k]): the fields the snapshot holds overwrite the store's.
AssignQuote(q, snap) == [f \in DOMAIN q |-> IF snap[f] = Absent THEN q[f] ELSE snap[f]]

\* A record that does not parse taken as a reason to blank the Quotes.
RestoreCache_blanksOnError(st, c) ==
    IF c.kind = "json" THEN [k \in StoreKeys |-> AssignQuote(st[k], c.data[k])]
    ELSE IF c.kind = "corrupt" THEN [k \in StoreKeys |-> [f \in DOMAIN st[k] |-> Null]]
    ELSE st

\* The store after loadCache's restore loop: JSON.parse of an absent item is
\* null (nothing is restored), of an unparseable one an exception the catch
\* swallows.
RestoreCache(st, c) ==
    IF c.kind = "json" THEN [k \in StoreKeys |-> AssignQuote(st[k], c.data[k])] ELSE st

\* renderUI(): the prediction cards, then saveCache().
RenderUI(st) ==
    /\ pred' = RenderPred(pred, st)
    /\ cache' = saveCache(st)

(***************************************************************************)
(* Provider responses the refresh cycles can receive.                      *)
(***************************************************************************)
\* One item {s, d: [close, change, change_abs]}: the percent change is that of
\* the absolute change on the previous close, when there is one.
TvItem(sym, cur, diff) ==
    LET pct == IF IsNum(cur) /\ IsNum(diff) /\ cur # diff
               THEN RDiv(RMul(Num(100), diff), RSub(cur, diff))
               ELSE Null
    IN [s |-> sym, d |-> <<cur, pct, diff>>]
TvOk(items) == [ok |-> TRUE, data |-> items]
\* fetchTradingView returned null
TvFailed == [ok |-> FALSE, data |-> <<>>]

IndiaResults ==
    { TvFailed,
      TvOk(<<TvItem("NSE:GOLDBEES", Num(100), Num(1)), TvItem("NSE:SILVERBEES", Num(90), Num(-1))>>) }
CfdResults ==
    { TvFailed,
      TvOk(<<TvItem("TVC:GOLD", Num(2650), Num(10)), TvItem("TVC:SILVER", Num(31), Num(1))>>),
      TvOk(<<TvItem("TVC:GOLD", Num(2630), Num(-10)), TvItem("TVC:SILVER", Num(29), Num(-1))>>),
      TvOk(<<TvItem("TVC:GOLD", Null, Null), TvItem("TVC:SILVER", Null, Null)>>) }
ForexResults ==
    { TvOk(<<TvItem("FX_IDC:USDINR", Num(83), Num(0))>>) }
GlobalResults ==
    { TvOk(<<TvItem("MCX:GOLDM1!", Num(7000), Num(5)), TvItem("MCX:SILVERM1!", Num(800), Num(2))>>) }

\* A chart result: kind "null" is fetchYahoo's null, "malformed" a result
\* without indicators or timestamps (processUSD throws on it), "ok" a full one.
ChartMeta(regular, previous, chart, price) ==
    [regularMarketPreviousClose |-> regular, previousClose |-> previous,
     chartPreviousClose |-> chart, regularMarketPrice |-> price]
NoMeta == ChartMeta(Undef, Undef, Undef, Undef)
ChartNull == [kind |-> "null", meta |-> NoMeta, timestamps |-> <<>>, closes |-> <<>>]
ChartMalformed == [kind |-> "malformed", meta |-> NoMeta, timestamps |-> <<>>, closes |-> <<>>]
ChartOk(meta, timestamps, closes) ==
    [kind |-> "ok", meta |-> meta, timestamps |-> timestamps, closes |-> closes]

\* Epoch seconds of the candle at UTC minute m of day `day`.
CandleAt(day, m) == (day * 1440 + m) * 60

GoldCharts ==
    { ChartNull,
      ChartMalformed,
      \* a 10:00 UTC candle at 2640 after a null one
      ChartOk(ChartMeta(Null, Num(2630), Num(2620), Num(2650)),
              <<CandleAt(0, 595), CandleAt(0, 600)>>, <<Null, Num(2640)>>),
      \* no candle under 30 minutes from 10:00 UTC
      ChartOk(ChartMeta(Null, Num(2630), Num(2620), Num(2650)),
              <<CandleAt(0, 570), CandleAt(0, 600)>>, <<Num(2600), Null>>) }
SilverCharts ==
    { ChartNull,
      ChartMalformed,
      ChartOk(ChartMeta(Num(29), Num(28), Num(27), Num(31)),
              <<CandleAt(0, 600)>>, <<Num(30)>>) }

\* A snapshot an earlier session of the page left behind.
OldStore ==
    [InitStore EXCEPT !.xau = [cur |-> Num(2650), prev |-> Num(2640), anchor1530 |-> Num(2640)],
                      !.goldBees = [cur |-> Num(100), prev |-> Num(99)]]
CacheInits == {NoCache, CorruptCache, saveCache(OldStore)}

(***************************************************************************)
(* The handlers (src/main.js:1323-1378, 1559-1572, 1613-1626)              *)
(***************************************************************************)
MaxCycles == 2

\* CFG.INTERVAL, in milliseconds
INTERVAL == 5000

EmptySeries == [timestamps |-> <<>>, closes |-> <<>>]
Pending == [t |-> "pending", n |-> 0, d |-> 1]

\* Nothing asked of the calendar, no adapter call made, no meta resolved.
CalIdle == [asked |-> FALSE, at |-> [date |-> UnsetDate, min |-> 0], next |-> UnsetDate, steps |-> 0, tomorrowOpen |-> FALSE]
FetchIdle ==
    [adapter |-> "none", stage |-> "idle", idx |-> 0, contacted |-> <<>>, replies |-> <<>>,
     result |-> "pending"]
NothingResolved ==
    [done |-> FALSE, version |-> "none", meta |-> NoMeta,
     by |-> [processUSD |-> Undef, processBees |-> Undef, processForex |-> Undef]]

\* No page reload has read the snapshot.
NotReloaded == [done |-> FALSE, S |-> InitStore]

\* The page as the script leaves it at load, before DOMContentLoaded.
InitPage ==
    /\ series = EmptySeries
    /\ anchor = Pending
    /\ pc = "init"
    /\ now = [date |-> UnsetDate, min |-> 0]
    /\ status = HtmlStatus
    /\ gate = HtmlGate
    /\ S = InitStore
    /\ pred = HtmlPred
    /\ inflight = {}
    /\ started = 0
    /\ timerOn = FALSE
    /\ cal = CalIdle
    /\ fetch = FetchIdle
    /\ resolved = NothingResolved
    /\ cd = INTERVAL \div 1000
    /\ reloaded = NotReloaded

Init ==
    /\ InitPage
    /\ cache \in CacheInits
    /\ holidays = NSE_HOLIDAYS

\* DOMContentLoaded: startLiveClock (first tick), loadCache (with its renderUI
\* when a snapshot parses), then fetchAll up to its first await.
Boot(ist) ==
    /\ pc = "init"
    /\ pc' = "running"
    /\ TickEffect(ist)
    /\ S' = RestoreCache(S, cache)
    /\ IF cache.kind = "json"
       THEN RenderUI(S')
       ELSE UNCHANGED <<pred, cache>>
    /\ inflight' = {[id |-> 1, phase |-> "tv"]}
    /\ started' = 1
    /\ UNCHANGED <<timerOn, cd, series, anchor, unitVars>>

\* The clock interval calling renderUI as well.
Tick_rerenders(ist) ==
    /\ pc = "running"
    /\ TickEffect(ist)
    /\ RenderUI(S)
    /\ UNCHANGED <<pc, S, inflight, started, timerOn, cd, series, anchor, unitVars>>

\* The 1-second clock interval.
Tick(ist) ==
    /\ pc = "running"
    /\ TickEffect(ist)
    /\ UNCHANGED <<pc, S, pred, cache, inflight, started, timerOn, cd, series, anchor, unitVars>>

\* The interval reading the snapshot again before it fetches.
TimerFire_reloads ==
    /\ timerOn
    /\ started < MaxCycles
    /\ started' = started + 1
    /\ inflight' = inflight \cup {[id |-> started + 1, phase |-> "tv"]}
    /\ S' = RestoreCache(S, cache)
    /\ UNCHANGED <<pc, pred, cache, timerOn, cd, clockVars, anchorVars, unitVars>>

\* The interval waiting for the cycles before it to finish.
TimerFire_waits ==
    /\ timerOn
    /\ inflight = {}
    /\ started < MaxCycles
    /\ started' = started + 1
    /\ inflight' = inflight \cup {[id |-> started + 1, phase |-> "tv"]}
    /\ UNCHANGED <<pc, S, pred, cache, timerOn, cd, clockVars, anchorVars, unitVars>>

\* The refresh interval: fetchAll up to its first await.
TimerFire ==
    /\ timerOn
    /\ started < MaxCycles
    /\ started' = started + 1
    /\ inflight' = inflight \cup {[id |-> started + 1, phase |-> "tv"]}
    /\ UNCHANGED <<pc, S, pred, cache, timerOn, cd, clockVars, anchorVars, unitVars>>

\* The countdown interval: cd = Math.max(0, cd - 1).
CountdownTick ==
    /\ pc = "running"
    /\ cd' = IF cd - 1 > 0 THEN cd - 1 ELSE 0
    /\ UNCHANGED <<pc, S, pred, cache, inflight, started, timerOn, clockVars, anchorVars, unitVars>>

\* fetchAll after await Promise.all(tvRequests...): the four scanner results are
\* processed, renderUI runs, the two chart fetches are issued; the caller then
\* goes on: the bootstrap registers the refresh interval after the first
\* fetchAll, the interval callback calls resetCountdown.  An exception of
\* processTVData leaves fetchAll at once: the promise rejects, nothing is
\* rendered, no chart fetch is issued, and the caller does not go on.
Phase1Done(c, results) ==
    /\ c \in inflight
    /\ c.phase = "tv"
    /\ LET bad == FirstThrowing(results)
       IN IF bad = 0
          THEN /\ S' = ProcessTVResults(S, results, 1)
               /\ RenderUI(S')
               /\ inflight' = (inflight \ {c}) \cup {[id |-> c.id, phase |-> "yahoo"]}
               /\ timerOn' = TRUE
               /\ cd' = IF c.id = 1 THEN cd ELSE INTERVAL \div 1000
          ELSE /\ S' = StoreAtThrow(S, results, bad)
               /\ inflight' = inflight \ {c}
               /\ UNCHANGED <<pred, cache, timerOn, cd>>
    /\ UNCHANGED <<pc, started, clockVars, anchorVars, unitVars>>

\* The .then of the background Promise.all: processUSD for each chart result
\* that is not null, then renderUI; an exception of processUSD skips the rest
\* and is logged by the .catch.
Phase2Done(c, goldRaw, silverRaw) ==
    /\ c \in inflight
    /\ c.phase = "yahoo"
    /\ inflight' = inflight \ {c}
    /\ LET afterGold == IF goldRaw.kind = "ok" THEN processUSD(S, "GC=F", goldRaw) ELSE S
           afterSilver == IF silverRaw.kind = "ok"
                          THEN processUSD(afterGold, "SI=F", silverRaw)
                          ELSE afterGold
       IN IF goldRaw.kind = "malformed"
          THEN UNCHANGED <<S, pred, cache>>
          ELSE IF silverRaw.kind = "malformed"
               THEN S' = afterGold /\ UNCHANGED <<pred, cache>>
               ELSE S' = afterSilver /\ RenderUI(S')
    /\ UNCHANGED <<pc, started, timerOn, cd, clockVars, anchorVars, unitVars>>

(***************************************************************************)
(* The program: the refresh cycles together with the clock, at a few       *)
(* instants around the close of Wednesday 21 January 2026.                 *)
(***************************************************************************)
DataInstants ==
    { [date |-> <<2026, 1, 21>>, min |-> 929],
      [date |-> <<2026, 1, 21>>, min |-> 945] }

BootPage == \E ist \in DataInstants : Boot(ist)

ClockTick == \E ist \in DataInstants : Tick(ist)

ScannerPhase ==
    \E c \in {x \in inflight : x.phase = "tv"}, india \in IndiaResults, cfd \in CfdResults,
       forex \in ForexResults, global \in GlobalResults :
        Phase1Done(c, <<india, cfd, forex, global>>)

AnchorPhase ==
    \E c \in {x \in inflight : x.phase = "yahoo"}, goldRaw \in GoldCharts, silverRaw \in SilverCharts :
        Phase2Done(c, goldRaw, silverRaw)

Next == BootPage \/ ClockTick \/ TimerFire \/ ScannerPhase \/ AnchorPhase

Spec == Init /\ [][Next]_vars

(***************************************************************************)
(* The refresh cycles with both 1-second timers, every network call        *)
(* settling in the end: what the providers answer moves with the cycle     *)
(* whose request it answers, so the store shows which answer came last.    *)
(***************************************************************************)
CycleIds == 1..MaxCycles

\* The scanner answers to the requests of cycle id: the india group fails or
\* answers; the cfd group answers in full, or with a silver item without d.
IndiaOf(id) ==
    { TvFailed,
      TvOk(<<TvItem("NSE:GOLDBEES", Num(100 + id), Num(1)),
             TvItem("NSE:SILVERBEES", Num(90 + id), Num(-1))>>) }
CfdOf(id) ==
    { TvOk(<<TvItem("TVC:GOLD", Num(2650 + id), Num(10)), TvItem("TVC:SILVER", Num(30 + id), Num(1))>>),
      TvOk(<<TvItem("TVC:GOLD", Num(2650 + id), Num(10)), [s |-> "TVC:SILVER", d |-> <<>>]>>) }

\* The charts of cycle id: the sample nearest 15:30 IST moves as candles
\* arrive, so each cycle's gold chart holds its own anchor; the silver chart
\* fails, cannot be processed, or holds an anchor.
GoldChartOf(id) ==
    { ChartOk(ChartMeta(Null, Num(2630), Num(2620), Num(2650 + id)),
              <<CandleAt(0, 600)>>, <<Num(2640 + id)>>) }
SilverChartOf(id) ==
    { ChartNull,
      ChartMalformed,
      ChartOk(ChartMeta(Num(29), Num(28), Num(27), Num(31)), <<CandleAt(0, 600)>>, <<Num(30)>>) }

ScannerSettles(id) ==
    \E c \in {x \in inflight : x.id = id /\ x.phase = "tv"}, india \in IndiaOf(id),
       cfd \in CfdOf(id), forex \in ForexResults, global \in GlobalResults :
        Phase1Done(c, <<india, cfd, forex, global>>)

ChartsSettle(id) ==
    \E c \in {x \in inflight : x.id = id /\ x.phase = "yahoo"}, goldRaw \in GoldChartOf(id),
       silverRaw \in SilverChartOf(id) :
        Phase2Done(c, goldRaw, silverRaw)

CycleInstant == [date |-> <<2026, 1, 21>>, min |-> 945]

BootCycle == Boot(CycleInstant)
ClockTickCycle == Tick(CycleInstant)
ScannerCycle == \E id \in CycleIds : ScannerSettles(id)
ChartCycle == \E id \in CycleIds : ChartsSettle(id)

NextCycle == BootCycle \/ ClockTickCycle \/ CountdownTick \/ TimerFire \/ ScannerCycle \/ ChartCycle

\* The calls cycle id awaits in the given phase settle: the cycle leaves it.
Settles(id, phase) ==
    LET c == [id |-> id, phase |-> phase]
    IN /\ c \in inflight
       /\ inflight' \in {inflight \ {c}, (inflight \ {c}) \cup {[id |-> id, phase |-> "yahoo"]}}

\* The interval, once registered, fires.
Fires == timerOn /\ started < MaxCycles /\ started' = started + 1

\* The registered interval fires, and the network calls of every cycle settle.
FairCycle ==
    /\ WF_started(Fires)
    /\ \A id \in CycleIds : WF_inflight(Settles(id, "tv")) /\ WF_inflight(Settles(id, "yahoo"))

SpecCycle == Init /\ [][NextCycle]_vars /\ FairCycle

(***************************************************************************)
(* The snapshot round trip: the adapters write a Quote, saveCache persists *)
(* the store, and loadCache reads the snapshot into the store of a fresh   *)
(* page.  JSON.stringify followed by JSON.parse gives a finite number back *)
(* as it was, drops a key whose value is undefined and turns NaN to null.  *)
(***************************************************************************)
ScannerSymbols ==
    {"TVC:GOLD", "TVC:SILVER", "FX_IDC:USDINR", "NSE:GOLDBEES", "NSE:SILVERBEES",
     "MCX:GOLDM1!", "MCX:SILVERM1!"}

\* What a d column can hold at a position: a number, null, or nothing (a
\* shorter array destructures to undefined).
ColumnValues(n) == {Num(n), Null, Undef}

\* Gold charts without a sample near 15:30 IST, whose meta holds a previous
\* close, a null one, or none.
RoundCharts ==
    { ChartOk(ChartMeta(Undef, prev, Undef, Num(2650)), <<CandleAt(0, 570)>>, <<Num(2600)>>) :
        prev \in ColumnValues(2630) }

InitRound ==
    /\ InitPage
    /\ cache = NoCache
    /\ holidays = NSE_HOLIDAYS

\* processTVData writes the Quote of one scanner item.
RoundScan ==
    /\ S = InitStore
    /\ cache = NoCache
    /\ \E sym \in ScannerSymbols, cur \in ColumnValues(2650), diff \in ColumnValues(10) :
          S' = ProcessItem(S, [s |-> sym, d |-> <<cur, Null, diff>>])
    /\ UNCHANGED <<anchorVars, pc, clockVars, pred, cache, inflight, started, timerOn, cd, unitVars>>

\* processUSD writes the gold anchor.
RoundChart ==
    /\ S.xau.anchor1530 = Num(0)
    /\ cache = NoCache
    /\ \E raw \in RoundCharts : S' = processUSD(S, "GC=F", raw)
    /\ S' # S
    /\ UNCHANGED <<anchorVars, pc, clockVars, pred, cache, inflight, started, timerOn, cd, unitVars>>

RoundSave ==
    /\ cache = NoCache
    /\ cache' = saveCache(S)
    /\ UNCHANGED <<anchorVars, pc, clockVars, S, pred, inflight, started, timerOn, cd, unitVars>>

\* The page is loaded again: loadCache on the initial store.
RoundLoad ==
    /\ cache # NoCache
    /\ ~reloaded.done
    /\ reloaded' = [done |-> TRUE, S |-> RestoreCache(InitStore, cache)]
    /\ UNCHANGED <<anchorVars, pc, clockVars, dataVars, holidays, cal, fetch, resolved>>

NextRound == RoundScan \/ RoundChart \/ RoundSave \/ RoundLoad

SpecRound == InitRound /\ [][NextRound]_vars

(***************************************************************************)
(* The clock on its own, over the calendar years of the holiday table: the *)
(* page is opened at any sampled instant, and each later tick reads a      *)
(* later instant, at most MaxSkipDays days on (the page may be suspended); *)
(* no snapshot is cached.                                                  *)
(***************************************************************************)
MaxSkipDays == 1

CalendarYears == {2025, 2026}

\* IST minutes of day on both sides of every session boundary of the code.
MinuteSamples == {0, 539, 540, 554, 555, 929, 930, 945, 1439}

CalendarDates ==
    {date \in CalendarYears \X (1..12) \X (1..31) : date[3] <= DaysInMonth(date[1], date[2])}

RECURSIVE DaysAfter(_, _)
DaysAfter(date, k) == IF k = 0 THEN {} ELSE {AddDay(date)} \cup DaysAfter(AddDay(date), k - 1)

LaterInstants(ist) ==
    {[date |-> ist.date, min |-> m] : m \in {x \in MinuteSamples : x > ist.min}}
        \cup {[date |-> dd, min |-> m] :
                dd \in {x \in DaysAfter(ist.date, MaxSkipDays) : x[1] \in CalendarYears},
                m \in MinuteSamples}

BootClock ==
    /\ pc = "init"
    /\ \E date \in CalendarDates, m \in MinuteSamples : Boot([date |-> date, min |-> m])

LaterTick ==
    /\ pc = "running"
    /\ \E ist \in LaterInstants(now) : Tick(ist)

NextClock == BootClock \/ LaterTick

InitClock == Init /\ cache = NoCache

SpecClock == InitClock /\ [][NextClock]_vars

\* The clock under the shipped holiday table and under one that also lists
\* holidays falling on a weekend (Sunday 5 October 2025, Saturday 15 August
\* 2026).
WeekendHolidays == {<<2025, 10, 5>>, <<2026, 8, 15>>}

InitSession ==
    /\ InitPage
    /\ cache = NoCache
    /\ holidays \in {NSE_HOLIDAYS, NSE_HOLIDAYS \cup WeekendHolidays}

SpecSession == InitSession /\ [][NextClock]_vars

(***************************************************************************)
(* The calendar functions on their own, asked once at any sampled instant, *)
(* with the holiday table the shipped one, a stale one (the 2025 entries   *)
(* only), an empty one, or a corrupted one that lists every day.           *)
(***************************************************************************)
TableYears == {2025, 2026, 2027}
EveryDay ==
    {date \in TableYears \X (1..12) \X (1..31) : date[3] <= DaysInMonth(date[1], date[2])}
StaleTable == {date \in NSE_HOLIDAYS : date[1] = 2025}
HolidayTables == {NSE_HOLIDAYS, StaleTable, {}, EveryDay}

InitCalendar ==
    /\ InitPage
    /\ cache = NoCache
    /\ holidays \in HolidayTables

\* getNextNseDay() and isTomorrowNseOpen() with istNow() = ist.
AskCalendar ==
    /\ ~cal.asked
    /\ \E date \in CalendarDates, m \in MinuteSamples :
          LET ist == [date |-> date, min |-> m]
          IN cal' = [asked |-> TRUE,
                     at |-> ist,
                     next |-> getNextNseDay(ist),
                     steps |-> NextNseScan(AddDay(ist.date), 0).steps,
                     tomorrowOpen |-> isTomorrowNseOpen(ist)]
    /\ UNCHANGED <<anchorVars, pc, clockVars, dataVars, reloaded, holidays, fetch, resolved>>

NextCalendar == AskCalendar

SpecCalendar == InitCalendar /\ [][NextCalendar]_vars

(***************************************************************************)
(* The chart processors on their own: one chart result, its series empty,  *)
(* its meta fields each null, undefined, NaN, 0 or a price of their own,   *)
(* handed to the three processors of a version of the script; the previous *)
(* close each one resolved is read off the store it wrote.                 *)
(***************************************************************************)
MetaFieldValues(price) == {Null, Undef, NaN, Num(0), price}

\* 105.5, 105.2, 104.9 and 106
MetaSet ==
    {ChartMeta(regular, previous, chart, price) :
        regular \in MetaFieldValues(Rat(1055, 10)),
        previous \in MetaFieldValues(Rat(1052, 10)),
        chart \in MetaFieldValues(Rat(1049, 10)),
        price \in {Null, Num(106)}}

InitPrev == Init /\ cache = NoCache

\* The processors of src/main.js.  With S.source 'tradingview' processUSD
\* leaves prev to the fallback anchor, written to a Quote holding no anchor.
ResolveMain ==
    /\ ~resolved.done
    /\ \E meta \in MetaSet :
          LET raw == ChartOk(meta, <<>>, <<>>)
          IN resolved' =
                [done |-> TRUE, version |-> "main.js", meta |-> meta,
                 by |-> [processUSD |-> processUSD(InitStore, "GC=F", raw).xau.anchor1530,
                         processBees |-> processBees(InitStore, "GOLDBEES.NS", raw).goldBees.prev,
                         processForex |-> processForex(InitStore, raw).usdinr.prev]]
    /\ UNCHANGED <<anchorVars, pc, clockVars, dataVars, reloaded, holidays, cal, fetch>>

\* The processors of src/unnamed/part_000.
ResolvePart000 ==
    /\ ~resolved.done
    /\ \E meta \in MetaSet :
          LET raw == ChartOk(meta, <<>>, <<>>)
          IN resolved' =
                [done |-> TRUE, version |-> "part_000", meta |-> meta,
                 by |-> [processUSD |-> part000_processUSD(InitStore, "GC=F", raw).xau.prev,
                         processBees |-> part000_processBees(InitStore, "GOLDBEES.NS", raw).goldBees.prev,
                         processForex |-> part000_processForex(InitStore, raw).usdinr.prev]]
    /\ UNCHANGED <<anchorVars, pc, clockVars, dataVars, reloaded, holidays, cal, fetch>>

NextPrev == ResolveMain \/ ResolvePart000

SpecPrev == InitPrev /\ [][NextPrev]_vars

(***************************************************************************)
(* The adapters on their own (src/main.js:1169-1221): one call of          *)
(* fetchYahoo or fetchTradingView, each await of a response a step.        *)
(*                                                                         *)
(* A response is [status, body]: status "neterr" (fetch rejects), "bad"    *)
(* (r.ok false) or "ok".  A body is [json, chart, contents]: json says     *)
(* whether r.json() parses it; chart is what d.chart?.result?.[0] finds in *)
(* the parsed object ("none", or the result "A"); contents is its contents *)
(* member: "absent", "garbage" (a string JSON.parse rejects), "none" (JSON *)
(* without a chart result) or the result "B" the string holds.             *)
(***************************************************************************)
PROXIES ==
    << [url |-> "allorigins", wraps |-> TRUE],
       [url |-> "corsproxy", wraps |-> FALSE] >>

NotJson == [json |-> FALSE, chart |-> "none", contents |-> "absent"]
Bodies ==
    {NotJson} \cup
    {[json |-> TRUE, chart |-> c, contents |-> k] :
        c \in {"none", "A"}, k \in {"absent", "garbage", "none", "B"}}
Responses ==
    {[status |-> "neterr", body |-> NotJson], [status |-> "bad", body |-> NotJson]} \cup
    {[status |-> "ok", body |-> b] : b \in Bodies}

\* The chart result read as if no relay wrapped its payload.
ChartResultOf_noUnwrap(resp, wraps) ==
    IF resp.status # "ok" THEN "fail"
    ELSE IF ~resp.body.json THEN "fail"
    ELSE IF resp.body.chart = "none" THEN "fail"
    ELSE resp.body.chart

\* What one try block of fetchYahoo gets out of a response: the chart result,
\* or "fail" when it throws or finds no result.
ChartResultOf(resp, wraps) ==
    IF resp.status # "ok" THEN "fail"
    ELSE IF ~resp.body.json THEN "fail"
    ELSE IF wraps
         THEN IF resp.body.contents \in {"absent", "garbage", "none"} THEN "fail"
              ELSE resp.body.contents
         ELSE IF resp.body.chart = "none" THEN "fail"
              ELSE resp.body.chart

InitFetch == Init /\ cache = NoCache

\* fetchYahoo up to its first await: the direct request is sent.
CallYahoo ==
    /\ fetch.stage = "idle"
    /\ fetch' = [fetch EXCEPT !.adapter = "yahoo", !.stage = "direct", !.contacted = <<"direct">>]
    /\ UNCHANGED <<anchorVars, pc, clockVars, dataVars, reloaded, holidays, cal, resolved>>

\* The direct response (or rejection) arrives: return the result, or go on to
\* the first relay.
YahooDirectReply(resp) ==
    /\ fetch.adapter = "yahoo"
    /\ fetch.stage = "direct"
    /\ LET got == ChartResultOf(resp, FALSE)
       IN fetch' =
            IF got # "fail"
            THEN [fetch EXCEPT !.stage = "done", !.replies = Append(@, resp), !.result = got]
            ELSE [fetch EXCEPT !.stage = "proxy", !.idx = 1, !.replies = Append(@, resp),
                               !.contacted = Append(@, PROXIES[1].url)]
    /\ UNCHANGED <<anchorVars, pc, clockVars, dataVars, reloaded, holidays, cal, resolved>>

\* The response of relay PROXIES[idx] arrives: return the result, go on to the
\* next relay, or return null after the last.
YahooProxyReply(resp) ==
    /\ fetch.adapter = "yahoo"
    /\ fetch.stage = "proxy"
    /\ LET got == ChartResultOf(resp, PROXIES[fetch.idx].wraps)
       IN fetch' =
            IF got # "fail"
            THEN [fetch EXCEPT !.stage = "done", !.replies = Append(@, resp), !.result = got]
            ELSE IF fetch.idx < Len(PROXIES)
                 THEN [fetch EXCEPT !.idx = @ + 1, !.replies = Append(@, resp),
                                    !.contacted = Append(@, PROXIES[fetch.idx + 1].url)]
                 ELSE [fetch EXCEPT !.stage = "done", !.replies = Append(@, resp), !.result = "null"]
    /\ UNCHANGED <<anchorVars, pc, clockVars, dataVars, reloaded, holidays, cal, resolved>>

\* fetchTradingView up to its await: the POST is sent.
CallTradingView ==
    /\ fetch.stage = "idle"
    /\ fetch' = [fetch EXCEPT !.adapter = "tradingview", !.stage = "direct", !.contacted = <<"direct">>]
    /\ UNCHANGED <<anchorVars, pc, clockVars, dataVars, reloaded, holidays, cal, resolved>>

\* The scanner's response arrives: the parsed body is returned, or null.
TradingViewReply(resp) ==
    /\ fetch.adapter = "tradingview"
    /\ fetch.stage = "direct"
    /\ fetch' = [fetch EXCEPT !.stage = "done", !.replies = Append(@, resp),
                              !.result = IF resp.status = "ok" /\ resp.body.json
                                         THEN "parsed" ELSE "null"]
    /\ UNCHANGED <<anchorVars, pc, clockVars, dataVars, reloaded, holidays, cal, resolved>>

DirectArrives == \E resp \in Responses : YahooDirectReply(resp)
ProxyArrives == \E resp \in Responses : YahooProxyReply(resp)
ScannerArrives == \E resp \in Responses : TradingViewReply(resp)

NextFetch == CallYahoo \/ DirectArrives \/ ProxyArrives \/ CallTradingView \/ ScannerArrives

SpecFetch == InitFetch /\ [][NextFetch]_vars

(***************************************************************************)
(* The anchor search on its own: every time-ascending series of at most    *)
(* MaxLen samples taken from MaxDays days at the minutes AnchorMinutes,    *)
(* each close its own price, null or undefined.                            *)
(***************************************************************************)
MaxLen == 3
MaxDays == 2

\* UTC minutes of day: 30 and 0 minutes before 10:00, and 5, 12, 25, 30 after.
AnchorMinutes == {570, 600, 605, 612, 625, 630}

SampleTimes == {(day * 1440 + m) * 60 : day \in 0..(MaxDays - 1), m \in AnchorMinutes}

\* The close of the candle at ts, when it has one: a price no other candle has.
PriceAt(ts) == Num(ts \div 60)

CloseKinds == {"price", "null", "undefined"}

CloseOf(ts, kind) ==
    CASE kind = "price" -> PriceAt(ts)
      [] kind = "null" -> Null
      [] OTHER -> Undef

InitAnchor == Init /\ cache = NoCache

\* The provider's series grows by one candle, later than every candle in it.
AppendSample ==
    /\ anchor = Pending
    /\ Len(series.timestamps) < MaxLen
    /\ \E ts \in SampleTimes, kind \in CloseKinds :
          /\ \A i \in 1..Len(series.timestamps) : series.timestamps[i] < ts
          /\ series' = [timestamps |-> Append(series.timestamps, ts),
                        closes |-> Append(series.closes, CloseOf(ts, kind))]
    /\ UNCHANGED <<anchor, pc, clockVars, dataVars, unitVars>>

ApplyFindAnchor ==
    /\ anchor = Pending
    /\ anchor' = findAnchor1530(series.timestamps, series.closes)
    /\ UNCHANGED <<series, pc, clockVars, dataVars, unitVars>>

NextAnchor == AppendSample \/ ApplyFindAnchor

SpecAnchor == InitAnchor /\ [][NextAnchor]_vars

\* The samples of the series, and those that can be an anchor.
SampleIdx == 1..Len(series.timestamps)
HasClose(i) == ~IsNullish(series.closes[i])
DiffAt(i) == Abs(candleMinOf(series.timestamps[i]) - TARGET_UTC)
AnchorDone == anchor # Pending

\* C1 (as claimed): a series with a non-null sample at exactly 10:00 UTC yields
\* the close of such a sample, whatever other samples are near the cutoff.
C1_ExactSampleReturned ==
    (AnchorDone /\ \E i \in SampleIdx : HasClose(i) /\ DiffAt(i) = 0)
        => \E i \in SampleIdx : HasClose(i) /\ DiffAt(i) = 0 /\ anchor = series.closes[i]

\* C2 (as claimed): the anchor comes from the most recent calendar day that has
\* a non-null sample inside the acceptance window (under 30 minutes from 10:00).
QualifyingDays == {utcDayOf(series.timestamps[i]) : i \in {j \in SampleIdx : HasClose(j) /\ DiffAt(j) < 30}}
C2_MostRecentQualifyingDay ==
    (AnchorDone /\ QualifyingDays # {})
        => \E i \in SampleIdx :
              /\ HasClose(i)
              /\ \A day \in QualifyingDays : day <= utcDayOf(series.timestamps[i])
              /\ anchor = series.closes[i]

\* C3: with no non-null sample under 30 minutes from the cutoff the result is
\* null, and any result that is not null is the close of a non-null sample
\* under 30 minutes from the cutoff (never a null or undefined close).
C3_NullOutsideWindow ==
    AnchorDone =>
        /\ (\A i \in SampleIdx : HasClose(i) => DiffAt(i) >= 30) => anchor = Null
        /\ anchor # Null =>
              \E i \in SampleIdx : HasClose(i) /\ DiffAt(i) < 30 /\ anchor = series.closes[i]

\* C3 witness: a priced sample exactly 30 minutes off and a null close nearer
\* the cutoff, and the search answered null.
C3_Witness ==
    /\ AnchorDone
    /\ anchor = Null
    /\ \E i \in SampleIdx : HasClose(i) /\ DiffAt(i) = 30
    /\ \E i \in SampleIdx : ~HasClose(i) /\ DiffAt(i) <= 5

(***************************************************************************)
(* Claims about the fallback anchor and the gap prediction (Spec).         *)
(***************************************************************************)
\* A chart result processUSD handles without finding an anchor in its series.
NoAnchorIn(raw) == raw.kind = "ok" /\ findAnchor1530(raw.timestamps, raw.closes) = Null

\* C4 (as claimed): whenever processUSD handles a chart response whose series
\* has no qualifying anchor sample, the instrument's anchor afterwards equals
\* the previous close resolved from that response, whatever the Quote held.
C4_FallbackAlwaysPrev ==
    [][\A c \in inflight, goldRaw \in GoldCharts, silverRaw \in SilverCharts :
          (NoAnchorIn(goldRaw) /\ Phase2Done(c, goldRaw, silverRaw))
              => S'.xau.anchor1530 = PrevClose(goldRaw.meta)]_vars

\* C4 (amended): in that case the anchor afterwards equals the response's
\* resolved previous close when the Quote held no anchor (0, null, undefined
\* or NaN) before, and is the anchor the Quote already held otherwise.
C4_FallbackOnlyWhenNoAnchorHeld ==
    [][\A c \in inflight, goldRaw \in GoldCharts, silverRaw \in SilverCharts :
          (NoAnchorIn(goldRaw) /\ Phase2Done(c, goldRaw, silverRaw))
              => S'.xau.anchor1530 =
                    IF Truthy(S.xau.anchor1530) THEN S.xau.anchor1530
                    ELSE PrevClose(goldRaw.meta)]_vars

\* C4 witness: the gold anchor is 2630, which no series holds as a close: it is
\* the previous close of the chart response without an anchor sample.
C4_Witness ==
    /\ pc = "running"
    /\ S.xau.anchor1530 = Num(2630)
    /\ S.xau.cur # Num(0)

\* The store is the one the last renderUI rendered and saved.
Rendered == pc = "running" /\ cache = saveCache(S)

GapInputsPresent(usdState, beesState) ==
    /\ IsNum(usdState.cur) /\ usdState.cur.n # 0
    /\ IsNum(usdState.anchor1530) /\ usdState.anchor1530.n # 0
    /\ IsNum(beesState.cur) /\ beesState.cur.n # 0

\* C5 (as claimed): at every render where the international current price, the
\* international anchor or the local current price is absent or zero, the
\* expected open the sink holds for the pair is not a number (unavailable).
C5_UnavailableWhenInputMissing ==
    Rendered =>
        /\ ~GapInputsPresent(S.xau, S.goldBees) => ~IsNum(pred.gold.exp)
        /\ ~GapInputsPresent(S.xag, S.silverBees) => ~IsNum(pred.silver.exp)

SignOf(r) == IF r.n > 0 THEN 1 ELSE IF r.n < 0 THEN -1 ELSE 0

GapSignsAgree(card, usdState, beesState) ==
    (/\ GapInputsPresent(usdState, beesState)
     /\ usdState.cur.n > 0 /\ usdState.anchor1530.n > 0 /\ beesState.cur.n > 0)
        => /\ SignOf(RSub(card.exp, beesState.cur)) = SignOf(card.pct)
           /\ SignOf(card.pct) = SignOf(RSub(usdState.cur, usdState.anchor1530))

ProjectedOpen(cur, anchor1530, beesCur, percent) ==
    Rat(beesCur.n * (anchor1530.n * 100 + (cur.n - anchor1530.n) * percent), anchor1530.n * 100)

\* C7: the expected open renderGap writes is localCurrent * (1 + ((current -
\* anchor) / anchor) * coefficient) with coefficient 0.88 for the gold pair and
\* 0.82 for the silver pair; 2650, 2640, 100 and 0.88 give 100.333...
C7_ExpectedOpenFormula ==
    Rendered =>
        /\ GapInputsPresent(S.xau, S.goldBees) =>
              pred.gold.exp = ProjectedOpen(S.xau.cur, S.xau.anchor1530, S.goldBees.cur, 88)
        /\ GapInputsPresent(S.xag, S.silverBees) =>
              pred.silver.exp = ProjectedOpen(S.xag.cur, S.xag.anchor1530, S.silverBees.cur, 82)
        /\ (S.xau.cur = Num(2650) /\ S.xau.anchor1530 = Num(2640) /\ S.goldBees.cur = Num(100))
              => (pred.gold.exp.n * 1000) \div pred.gold.exp.d = 100333

\* C7 witness: the example of the claim has been rendered, next to a silver
\* prediction.
C7_Witness ==
    /\ Rendered
    /\ S.xau.cur = Num(2650) /\ S.xau.anchor1530 = Num(2640) /\ S.goldBees.cur = Num(100)
    /\ pred.gold.exp = Rat(301, 3)
    /\ IsNum(pred.silver.exp)

(***************************************************************************)
(* Claims about the session gating (SpecClock).                            *)
(***************************************************************************)
IsTradingDay(date) == getDay(date) \in 1..5 /\ date \notin NSE_HOLIDAYS

Ticked == pc = "running"

LockedShown ==
    /\ gate.bannerDisplay = "flex"
    /\ gate.bannerClass = "banner-locked"
    /\ gate.cardsDisplay = "none"

\* C8: on a trading day a tick before minute 930 leaves the prediction locked
\* (locked banner shown, cards hidden); a tick at minute 930 or later leaves
\* it not locked (cards shown, no locked banner shown).
C8_LockedBeforeClose ==
    (Ticked /\ IsTradingDay(now.date)) =>
        /\ now.min < 930 => (LockedShown /\ gate.bannerText = "unlocks-at")
        /\ now.min >= 930 =>
              /\ gate.cardsDisplay = "grid"
              /\ ~(gate.bannerDisplay = "flex" /\ gate.bannerClass = "banner-locked")

\* C8 witness: a trading day at midnight (before pre-open start), locked.
C8_Witness ==
    /\ Ticked
    /\ IsTradingDay(now.date)
    /\ now.min = 0
    /\ LockedShown

\* C9: on a Saturday, a Sunday or a holiday the non-trading-day banner is
\* shown and the cards are hidden at every minute of the day.
C9_LockedOnNonTradingDay ==
    (Ticked /\ ~IsTradingDay(now.date)) =>
        (LockedShown /\ gate.bannerText = "closed-today")

\* C9 witness: a weekday holiday late in the evening, locked.
C9_Witness ==
    /\ Ticked
    /\ now.date \in NSE_HOLIDAYS
    /\ getDay(now.date) \in 1..5
    /\ now.min = 1439
    /\ LockedShown

ExpectedFigureVisible == gate.cardsDisplay = "grid" /\ gate.priceWrapDisplay # "none"

AvailableAt(ist) ==
    IsTradingDay(ist.date) /\ ist.min >= 930 /\ IsTradingDay(AddDay(ist.date))

\* C10: on a trading day at minute 930 or later, the banner is hidden and the
\* cards and the expected-price figure are shown when calendar-tomorrow is a
\* trading day; otherwise the closed-tomorrow banner and the cards are shown
\* and the figure is hidden.  The figure is visible only in the first case.
C10_AvailableAfterClose ==
    Ticked =>
        /\ (IsTradingDay(now.date) /\ now.min >= 930) =>
              IF IsTradingDay(AddDay(now.date))
              THEN /\ gate.bannerDisplay = "none"
                   /\ gate.cardsDisplay = "grid"
                   /\ gate.priceWrapDisplay = ""
              ELSE /\ gate.bannerDisplay = "flex"
                   /\ gate.bannerClass = "banner-closed"
                   /\ gate.cardsDisplay = "grid"
                   /\ gate.priceWrapDisplay = "none"
        /\ ExpectedFigureVisible => AvailableAt(now)

\* C10 witness: Wednesday 21 January 2026, 15:45, full prediction shown.
C10_Witness ==
    /\ Ticked
    /\ now = [date |-> <<2026, 1, 21>>, min |-> 945]
    /\ gate.bannerDisplay = "none"
    /\ ExpectedFigureVisible

\* What the gating shows: the banner on display (its class and text) if any,
\* whether the cards are on display, whether the expected-price figure is (the
\* spans sit inside the cards), and the day the section is labelled for.
GatingOutcome(g) ==
    [banner |-> IF g.bannerDisplay = "none" THEN <<"none", "none">> ELSE <<g.bannerClass, g.bannerText>>,
     cards |-> g.cardsDisplay # "none",
     figure |-> g.cardsDisplay # "none" /\ g.priceWrapDisplay # "none",
     label |-> g.sectionLabel]

\* C11: after every tick the gating outcome is the one a tick at the same
\* instant produces on a freshly loaded page: it depends on the instant (and
\* the holiday table) only, not on the ticks and gating states before.
C11_NoStoredHistory ==
    Ticked => GatingOutcome(gate) = GatingOutcome(updatePredictionSection(HtmlGate, now))

\* C11 witness: a locked tick on a non-trading day after a closed-tomorrow tick:
\* the hidden expected-price spans are left over from the earlier tick (a fresh
\* page has them as the markup does), and the outcome is the fresh page's.
C11_Witness ==
    /\ Ticked
    /\ ~IsTradingDay(now.date)
    /\ LockedShown
    /\ gate.priceWrapDisplay = "none"
    /\ gate # updatePredictionSection(HtmlGate, now)

\* The k-th calendar day after date.
RECURSIVE DaysAhead(_, _)
DaysAhead(date, k) == IF k = 0 THEN date ELSE DaysAhead(AddDay(date), k - 1)

\* C12: the day getNextNseDay returns (the tick writes it into the section
\* label) is the first calendar day strictly after today that is Monday to
\* Friday and not in the holiday table, never today; from Friday 23 January
\* 2026, followed by a weekend and the Republic Day Monday, it is Tuesday 27.
C12_NextNseDayStrictlyForward ==
    Ticked =>
        /\ gate.sectionLabel # now.date
        /\ \E k \in 1..14 :
              /\ gate.sectionLabel = DaysAhead(now.date, k)
              /\ IsTradingDay(gate.sectionLabel)
              /\ \A j \in 1..(k - 1) : ~IsTradingDay(DaysAhead(now.date, j))
        /\ now.date = <<2026, 1, 23>> =>
              /\ getDay(now.date) = 5
              /\ <<2026, 1, 26>> \in NSE_HOLIDAYS
              /\ getDay(<<2026, 1, 26>>) = 1
              /\ gate.sectionLabel = <<2026, 1, 27>>

\* C12 witness: a tick on Friday 23 January 2026 labelled for Tuesday 27.
C12_Witness ==
    /\ Ticked
    /\ now.date = <<2026, 1, 23>>
    /\ IsTradingDay(now.date)
    /\ gate.sectionLabel = <<2026, 1, 27>>

(***************************************************************************)
(* Claims about the calendar functions under any holiday table             *)
(* (SpecCalendar).                                                         *)
(***************************************************************************)
\* A weekday the table in use does not list.
OpenPerTable(date) == getDay(date) \in 1..5 /\ date \notin holidays

\* C13 (as claimed): whatever the table holds, the walk ends within 14
\* day-steps and the date returned is a weekday that is not a holiday.
C13_AlwaysATradingDay ==
    cal.asked => (cal.steps <= 14 /\ OpenPerTable(cal.next))

\* C13 (amended): whatever the table holds, the walk ends within 14 day-steps
\* on the day steps + 1 days after today, having found every day before it a
\* weekend day or a holiday; that day is a weekday the table does not list
\* when fewer than 14 steps were taken, and is returned unchecked after the
\* 14th step: with every day listed it is the 15th day after today, a holiday.
\* A weekday a stale table does not list counts as a trading day (Monday 26
\* January 2026 for the 2025 table).
C13_BoundedWalk ==
    cal.asked =>
        /\ cal.steps <= 14
        /\ cal.next = DaysAhead(cal.at.date, cal.steps + 1)
        /\ \A j \in 1..cal.steps : ~OpenPerTable(DaysAhead(cal.at.date, j))
        /\ cal.steps < 14 => OpenPerTable(cal.next)
        /\ holidays = EveryDay =>
              (cal.steps = 14 /\ cal.next = DaysAhead(cal.at.date, 15) /\ cal.next \in holidays)
        /\ (holidays = StaleTable /\ cal.at.date = <<2026, 1, 23>>) => cal.next = <<2026, 1, 26>>

\* C13 witness: with every day listed, the walk took its 14 steps and returned
\* a Saturday or Sunday.
C13_Witness ==
    /\ cal.asked
    /\ holidays = EveryDay
    /\ cal.steps = 14
    /\ getDay(cal.next) \in {0, 6}

\* C14: isTomorrowNseOpen is true exactly when the date getNextNseDay returns
\* is calendar-tomorrow, which is exactly when tomorrow is a weekday that the
\* holiday table does not list, at every instant.
C14_TomorrowOpenIffNextIsTomorrow ==
    cal.asked =>
        /\ cal.tomorrowOpen <=> (cal.next = DaysAhead(cal.at.date, 1))
        /\ cal.tomorrowOpen <=> OpenPerTable(DaysAhead(cal.at.date, 1))

\* C14 witness: asked late on Sunday 25 January 2026 with the shipped table:
\* tomorrow is a Monday, and a holiday, so the answer is no.
C14_Witness ==
    /\ cal.asked
    /\ holidays = NSE_HOLIDAYS
    /\ cal.at = [date |-> <<2026, 1, 25>>, min |-> 1439]
    /\ getDay(<<2026, 1, 26>>) = 1
    /\ ~cal.tomorrowOpen

(***************************************************************************)
(* Claims about the previous-close precedence (SpecPrev).                  *)
(***************************************************************************)
SomePrevPresent(meta) ==
    \/ ~IsNullish(meta.regularMarketPreviousClose)
    \/ ~IsNullish(meta.previousClose)
    \/ ~IsNullish(meta.chartPreviousClose)

\* The first of the three fields, in the claimed order, that is not null or
\* undefined.
FirstNonNull(meta) ==
    IF ~IsNullish(meta.regularMarketPreviousClose) THEN meta.regularMarketPreviousClose
    ELSE IF ~IsNullish(meta.previousClose) THEN meta.previousClose
    ELSE meta.chartPreviousClose

\* C15 (as claimed): in every version of the script, each of processUSD,
\* processBees and processForex resolves the previous close to the first
\* non-null of regularMarketPreviousClose, previousClose, chartPreviousClose;
\* null, 105.2, 104.9 resolves to 105.2.
C15_FixedPrecedence ==
    (resolved.done /\ SomePrevPresent(resolved.meta)) =>
        /\ resolved.by.processUSD = FirstNonNull(resolved.meta)
        /\ resolved.by.processBees = FirstNonNull(resolved.meta)
        /\ resolved.by.processForex = FirstNonNull(resolved.meta)
        /\ (/\ resolved.meta.regularMarketPreviousClose = Null
            /\ resolved.meta.previousClose = Rat(1052, 10)
            /\ resolved.meta.chartPreviousClose = Rat(1049, 10))
              => resolved.by.processUSD = Rat(1052, 10)

(***************************************************************************)
(* Claims about the refresh cycle (Spec).                                  *)
(***************************************************************************)
\* Cycle c leaves its scanner phase, or its anchor phase, in this step.
LeavesScannerPhase(c) ==
    c.phase = "tv" /\ inflight' = (inflight \ {c}) \cup {[id |-> c.id, phase |-> "yahoo"]}
LeavesAnchorPhase(c) ==
    c.phase = "yahoo" /\ inflight' = inflight \ {c}

\* The responses of a market group that this step can have processed: those
\* that account for the group's Quotes after the step (the four groups write
\* disjoint Quotes, so every response of a scanner-phase step is among them).
GroupResponses(results, keys) ==
    {res \in results : \A k \in keys : S'[k] = processTVData(S, res)[k]}
IndiaProcessed == GroupResponses(IndiaResults, {"goldBees", "silverBees"})
CfdProcessed == GroupResponses(CfdResults, {"xau", "xag"})
ForexProcessed == GroupResponses(ForexResults, {"usdinr"})
GlobalProcessed == GroupResponses(GlobalResults, {"xauM", "xagM"})

EndpointOrder == <<"direct", "allorigins", "corsproxy">>

\* The chart result a response carries for an endpoint: inside the contents
\* envelope for the wrapping relay, at the top level for the others.
PayloadAt(endpoint, resp) ==
    IF endpoint = "allorigins" THEN resp.body.contents ELSE resp.body.chart

\* An attempt succeeded: success status, a body that parses (twice for the
\* wrapping relay) and a chart result in it.
AttemptSucceeded(endpoint, resp) ==
    /\ resp.status = "ok"
    /\ resp.body.json
    /\ PayloadAt(endpoint, resp) \in {"A", "B"}

\* C17: fetchYahoo contacts the direct endpoint first and then the relays in
\* their configured order, each only after every earlier attempt failed; it
\* returns exactly when an attempt succeeds, with that attempt's result (the
\* one inside the contents envelope for the wrapping relay) and no later
\* endpoint contacted, or with null after all 1 + 2 attempts failed.
C17_DirectThenRelaysInOrder ==
    fetch.adapter = "yahoo" =>
        LET n == Len(fetch.contacted)
            r == Len(fetch.replies)
        IN /\ fetch.contacted = SubSeq(EndpointOrder, 1, n)
           /\ \A i \in 1..(n - 1) : ~AttemptSucceeded(fetch.contacted[i], fetch.replies[i])
           /\ IF fetch.stage = "done"
              THEN /\ r = n
                   /\ IF AttemptSucceeded(fetch.contacted[n], fetch.replies[n])
                      THEN fetch.result = PayloadAt(fetch.contacted[n], fetch.replies[n])
                      ELSE fetch.result = "null" /\ n = 3
              ELSE /\ r = n - 1
                   /\ fetch.result = "pending"

\* C17 witness: the direct attempt failed and the wrapping relay's envelope
\* held the result B beside a top-level object without one: B was returned
\* and the pass-through relay never contacted.
C17_Witness ==
    /\ fetch.adapter = "yahoo"
    /\ fetch.stage = "done"
    /\ fetch.contacted = <<"direct", "allorigins">>
    /\ fetch.replies[2].body.chart = "none"
    /\ fetch.result = "B"

\* C18 (as claimed): when the direct scanner request fails, fetchTradingView
\* returns null only after the relays have been tried in their order.
C18_ScannerTriesRelays ==
    (fetch.adapter = "tradingview" /\ fetch.stage = "done" /\ fetch.result = "null")
        => fetch.contacted = EndpointOrder

\* The chart result's series holds an anchor sample.
AnchorIn(raw) == raw.kind = "ok" /\ Truthy(findAnchor1530(raw.timestamps, raw.closes))

\* C19 (as claimed): in the anchor phase, whatever happens to the gold chart
\* (fetch failed, or its payload cannot be processed), a silver chart result
\* that holds an anchor sample is processed and rendered in that cycle: the
\* silver anchor is that sample and renderUI has run on the updated store.
C19_OtherInstrumentUnaffected ==
    [][\A c \in inflight, goldRaw \in GoldCharts, silverRaw \in SilverCharts :
          (LeavesAnchorPhase(c) /\ AnchorIn(silverRaw) /\ Phase2Done(c, goldRaw, silverRaw))
              => /\ S'.xag.anchor1530 = findAnchor1530(silverRaw.timestamps, silverRaw.closes)
                 /\ cache' = saveCache(S')
                 /\ pred' = RenderPred(pred, S')]_vars

TvSucceeded(res) == res.ok

\* C20: a market group whose scanner fetch returned null leaves the Quotes of
\* its instruments as they were, and an instrument whose chart fetch returned
\* null leaves its Quote as it was; the store after the phase is the one the
\* other responses alone produce, and renderUI still runs on it (unless the
\* other chart result cannot be processed).
C20_FailedFetchKeepsQuotes ==
    [][/\ \A c \in {x \in inflight : LeavesScannerPhase(x)}, india \in IndiaProcessed,
             cfd \in CfdProcessed, forex \in ForexProcessed, global \in GlobalProcessed :
             (LeavesScannerPhase(c) /\ Phase1Done(c, <<india, cfd, forex, global>>))
                 => /\ ~india.ok => (S'.goldBees = S.goldBees /\ S'.silverBees = S.silverBees)
                    /\ ~cfd.ok => (S'.xau = S.xau /\ S'.xag = S.xag)
                    /\ ~forex.ok => S'.usdinr = S.usdinr
                    /\ ~global.ok => (S'.xauM = S.xauM /\ S'.xagM = S.xagM)
                    /\ S' = ProcessTVResults(S, SelectSeq(<<india, cfd, forex, global>>, TvSucceeded), 1)
                    /\ cache' = saveCache(S')
                    /\ pred' = RenderPred(pred, S')
       /\ \A c \in {x \in inflight : LeavesAnchorPhase(x)}, goldRaw \in GoldCharts,
             silverRaw \in SilverCharts :
             (LeavesAnchorPhase(c) /\ Phase2Done(c, goldRaw, silverRaw))
                 => /\ (goldRaw.kind = "null" /\ silverRaw.kind # "malformed") =>
                          /\ \A k \in StoreKeys \ {"xag"} : S'[k] = S[k]
                          /\ silverRaw.kind = "ok" => S' = processUSD(S, "SI=F", silverRaw)
                          /\ cache' = saveCache(S')
                          /\ pred' = RenderPred(pred, S')
                    /\ (silverRaw.kind = "null" /\ goldRaw.kind # "malformed") =>
                          /\ \A k \in StoreKeys \ {"xau"} : S'[k] = S[k]
                          /\ goldRaw.kind = "ok" => S' = processUSD(S, "GC=F", goldRaw)
                          /\ cache' = saveCache(S')
                          /\ pred' = RenderPred(pred, S')]_vars

\* C20 witness: the first cycle's scanner phase with the india group failed
\* and the cfd group answered: the BeES Quotes are still the initial ones, gold
\* is at 2630, and the store has been rendered and saved.
C20_Witness ==
    /\ Rendered
    /\ started = 1
    /\ S.goldBees = Quote2 /\ S.silverBees = Quote2
    /\ S.xau.cur = Num(2630)
    /\ S.usdinr.cur = Num(83)

\* C21 (as claimed): whatever the fetches of a cycle return, the cycle reaches
\* renderUI with its snapshot save (it passes from the scanner phase to the
\* chart phase, which fetchAll enters right after renderUI), and the refresh
\* timer goes on starting cycles after the first, up to the last one.
C21_NoFailureIsFatal ==
    /\ \A id \in CycleIds :
          []([id |-> id, phase |-> "tv"] \in inflight
                => <>([id |-> id, phase |-> "yahoo"] \in inflight))
    /\ (started >= 1) ~> (started = MaxCycles)

\* C22 (as claimed): the store a fresh page holds after loadCache equals, field
\* by field, the store saveCache persisted.
C22_RoundTrip == reloaded.done => reloaded.S = S

\* The DOMContentLoaded handler runs in this step.
Boots == pc = "init" /\ pc' = "running"

\* C23: with an absent or unparseable snapshot the bootstrap leaves every
\* Quote at its initial value, renders and saves nothing, and goes on to the
\* first fetchAll; when that cycle's scanner phase returns, the refresh timer
\* is registered and the snapshot is replaced by a well-formed one.
C23_CorruptSnapshotDiscarded ==
    [][/\ (Boots /\ cache.kind # "json")
            => /\ S' = InitStore
               /\ pred' = pred
               /\ cache' = cache
               /\ inflight' = {[id |-> 1, phase |-> "tv"]}
               /\ started' = 1
       /\ (cache.kind # "json" /\ [id |-> 1, phase |-> "tv"] \in inflight
              /\ [id |-> 1, phase |-> "tv"] \notin inflight')
            => /\ timerOn'
               /\ cache' = saveCache(S')]_vars

\* C23 witness: the page was opened on an unparseable snapshot; the first
\* fetchAll is awaiting the scanner and the Quotes are the initial ones.
C23_Witness ==
    /\ pc = "running"
    /\ cache = CorruptCache
    /\ S = InitStore
    /\ inflight = {[id |-> 1, phase |-> "tv"]}

\* The scanner responses of all cycles, and the items they carry for a Quote.
ScannerResponses ==
    UNION {IndiaOf(id) \cup CfdOf(id) : id \in CycleIds} \cup ForexResults \cup GlobalResults

ItemsFor(k) ==
    UNION { {res.data[i] : i \in {j \in 1..Len(res.data) :
                                     Destructures(res.data[j]) /\ KeyOfSymbol(res.data[j].s) = k}} :
            res \in {r \in ScannerResponses : r.ok} }

\* The (current, previous) pairs one provider response gives a Quote, and
\* those it holds before any response: the initial pair and the pair of a
\* snapshot the page was opened on.
ResponsePairs(k) == { <<item.d[1], JsSub(item.d[1], item.d[3])>> : item \in ItemsFor(k) }

SeedPairs(k) ==
    {<<InitStore[k].cur, InitStore[k].prev>>}
        \cup { <<c.data[k].cur, c.data[k].prev>> : c \in {x \in CacheInits : x.kind = "json"} }

\* C24: between any two handlers, hence at every renderUI, the current and
\* previous values of each Quote are the pair of one provider response, or
\* the pair the Quote was created or pre-seeded with.
C24_CurrentAndPreviousTogether ==
    \A k \in StoreKeys : <<S[k].cur, S[k].prev>> \in ResponsePairs(k) \cup SeedPairs(k)

\* C24 witness: the gold Quote, pre-seeded from the snapshot and written by
\* cycle 1, holds the pair of cycle 2's response, rendered and saved.
C24_Witness ==
    /\ Rendered
    /\ started = 2
    /\ S.xau.cur = Num(2652) /\ S.xau.prev = Num(2642)
    /\ S.goldBees.cur = Num(100) /\ S.goldBees.prev = Num(99)

\* C25: the refresh interval starts a cycle whatever is still in flight, a
\* step that starts a cycle cancels none of the outstanding ones, and a chart
\* response is applied and saved when it arrives, whichever cycles have been
\* applied before it: the gold anchor becomes that of the arriving response.
C25_LastArrivalWins ==
    [][/\ (timerOn /\ started < MaxCycles) => ENABLED TimerFire
       /\ started' > started => inflight \subseteq inflight'
       /\ \A c \in {x \in inflight : LeavesAnchorPhase(x)} :
             \A goldRaw \in GoldChartOf(c.id), silverRaw \in SilverChartOf(c.id) :
             (LeavesAnchorPhase(c) /\ Phase2Done(c, goldRaw, silverRaw))
                 => /\ S'.xau.anchor1530 = Num(2640 + c.id)
                    /\ silverRaw.kind # "malformed" => cache'.data.xau.anchor1530 = Num(2640 + c.id)]_vars

\* C25 witness: both cycles have run in full (the silver price is cycle 2's,
\* nothing is in flight), and the gold anchor in the store and in the
\* snapshot is the one cycle 1 requested: its chart response arrived last.
C25_Witness ==
    /\ started = 2
    /\ inflight = {}
    /\ S.xag.cur = Num(32)
    /\ S.xau.anchor1530 = Num(2641)
    /\ cache = saveCache(S)

\* C26: the bootstrap runs once; it reads the snapshot while no fetch has been
\* issued, and every field the snapshot holds is in the store when the first
\* fetchAll starts.  After the bootstrap no step gives a Quote field the value
\* the snapshot holds for it (the provider values of a cycle are its own, so
\* such a value could only have been read back from the snapshot).
C26_SnapshotReadOnceAtBoot ==
    [][/\ Boots
            => /\ inflight = {} /\ started = 0
               /\ cache.kind = "json"
                    => \A k \in StoreKeys : \A f \in DOMAIN S[k] :
                          cache.data[k][f] # Absent => S'[k][f] = cache.data[k][f]
       /\ pc = "running"
            => /\ pc' = "running"
               /\ cache.kind = "json"
                    => \A k \in StoreKeys : \A f \in DOMAIN S[k] :
                          S'[k][f] # S[k][f] => S'[k][f] # cache.data[k][f]]_vars

\* C26 witness: the page was opened on a snapshot, the first scanner response
\* has replaced the pre-seeded gold price, and the gold BeES Quote (its group
\* failed) still holds the pre-seeded values.
C26_Witness ==
    /\ pc = "running"
    /\ started = 1
    /\ S.xau.cur = Num(2651)
    /\ S.xau.anchor1530 = OldStore.xau.anchor1530
    /\ S.goldBees = OldStore.goldBees

\* C27: a step in which the chart responses of a cycle are processed changes
\* at most the anchor1530 fields of the gold and silver Quotes: their current
\* and previous values and the five other Quotes stay as they were, whatever
\* the responses hold.
C27_ChartWritesAnchorOnly ==
    [][\A c \in inflight :
          LeavesAnchorPhase(c)
              => /\ \A k \in StoreKeys \ {"xau", "xag"} : S'[k] = S[k]
                 /\ \A k \in {"xau", "xag"} : S'[k].cur = S[k].cur /\ S'[k].prev = S[k].prev]_vars

\* C27 witness: the gold Quote holds the scanner's current and previous values
\* (2630 and 2640) and the anchor the chart response's fallback gave it (the
\* chart's previous close 2630; the chart's own price is 2650).
C27_Witness ==
    /\ started = 1
    /\ inflight = {}
    /\ S.xau = [cur |-> Num(2630), prev |-> Num(2640), anchor1530 |-> Num(2630)]

\* A refresh handler runs in this step: a cycle starts, or the responses a
\* cycle awaits are processed.
RefreshStep == inflight' # inflight

\* C28: once the page runs, a step that is not a refresh handler's (a clock
\* tick or a countdown tick) leaves the Quote store, the prediction cards, the
\* snapshot and the refresh timer as they were; and a refresh handler's step
\* leaves what the clock tick displays as it was and does nothing to the
\* countdown but reset it.
C28_TimersAreCosmetic ==
    [][pc = "running"
          => /\ ~RefreshStep
                  => /\ S' = S /\ cache' = cache /\ pred' = pred
                     /\ started' = started /\ timerOn' = timerOn
             /\ RefreshStep
                  => /\ now' = now /\ status' = status /\ gate' = gate
                     /\ cd' \in {cd, INTERVAL \div 1000}]_vars

\* C28 witness: the clock has ticked and the countdown has run down to zero
\* while cycle 2 awaits its scanner responses and the store differs from
\* what the snapshot holds (an exception in cycle 1's chart phase left it
\* unrendered).
C28_Witness ==
    /\ cd = 0
    /\ now = CycleInstant
    /\ started = 2
    /\ [id |-> 2, phase |-> "tv"] \in inflight
    /\ cache # saveCache(S)
    /\ S.xau.cur = Num(2651)

\* The record holds, for each of the seven Quotes, every field of the store
\* st with its value (the values here are numbers and null).
SnapshotOf(c, st) ==
    /\ c.kind = "json"
    /\ DOMAIN c.data = StoreKeys
    /\ \A k \in StoreKeys : DOMAIN c.data[k] = DOMAIN st[k]
    /\ \A k \in StoreKeys : \A f \in DOMAIN st[k] : c.data[k][f] = st[k][f]

====
